---- MODULE Spec2Model ----
(***************************************************************************)
(* Store rating platform: the data-access shim (supabaseService.js), the   *)
(* database schema, triggers and row-level policies (the SQL script), the  *)
(* session context (AuthContext), the role router (App) and the handlers   *)
(* of the three dashboards.                                                *)
(*                                                                         *)
(* Numbers that JavaScript holds with one decimal (averageRating) are kept *)
(* as integers counting tenths: 43 stands for 4.3.                         *)
(***************************************************************************)
EXTENDS Integers, Sequences, FiniteSets, Bags, TLC

VARIABLES
    calcStores,     \* calculateStoreRatings: the `stores` argument (a list of store rows)
    calcRatings,    \* calculateStoreRatings: the `ratings` argument (a list of {store_id, rating})
    calcResult,     \* calculateStoreRatings: the returned list, <<>> before the call
    calcPhase,      \* "input" before the call, "returned" after it, "reordered" after a
                    \* repeated call on the same rows in another order
    profiles,       \* table public.profiles: rows [id, role]
    stores,         \* table public.stores: rows [id, email, owner_id]
    ratings,        \* table public.ratings: rows [id, user_id, store_id, rating]
    storeSeq,       \* the next value of stores.id (GENERATED ALWAYS AS IDENTITY)
    ratingSeq,      \* the next value of ratings.id (GENERATED ALWAYS AS IDENTITY)
    reqs,           \* the service calls sent to the server and not yet answered
    lastError,      \* the error of the latest answer ("none" when it carried data): what
                    \* the service function throws or reports to its caller
    authUsers,      \* table auth.users: the registered identities, rows [id, email]
    lastSignUp,     \* the latest signUp call the server answered, with the id it created
    lastResult,     \* what the latest call of login, register, createUser or
                    \* updatePassword returned (NoResult before any)
    session,        \* the supabase client's current session: its identity's id, or NULL
    user,           \* AuthProvider state `user` (NoUser for null)
    loading,        \* AuthProvider state `loading`
    handlers,       \* the running onAuthStateChange callbacks: a bag of [uid, pc]
    booted,         \* TRUE once the subscription has delivered the initial session
    logoutPending,  \* logout(): "no" (not running), "signOut" (awaiting
                    \* supabase.auth.signOut()) or "return" (about to resume)
    path,           \* the location the router renders
    triggers,       \* the triggers installed on public.profiles
    dashboard,      \* the dashboard the router has mounted: "user", "admin" or
                    \* "store_owner" (NULL: none)
    dashCalls,      \* the calls of the dashboard's handlers that await an answer
    shownStores,    \* the dashboard's state `stores` (`ownedStores` in the store owner
                    \* dashboard): the rows it displays with their aggregates
    dashError,      \* the error the dashboard shows to its user ("none": no error shown)
    dashLog,        \* the latest line written with console.error ("none": nothing)
    latestRead,     \* what the server returned to the reload that read it last
    selectedStoreId,\* StoreOwnerDashboard state `selectedStoreId` (NoStore for null)
    shownRatings    \* StoreOwnerDashboard state `storeRatings`: the rating list it displays

calcVars == <<calcStores, calcRatings, calcResult, calcPhase>>
dbVars == <<profiles, stores, ratings, storeSeq, ratingSeq>>
netVars == <<reqs, lastError>>
authVars ==
    <<authUsers, lastSignUp, lastResult, session, user, loading, handlers, booted, logoutPending,
      path>>
schemaVars == <<triggers>>
dashVars ==
    <<dashboard, dashCalls, shownStores, dashError, dashLog, latestRead, selectedStoreId,
      shownRatings>>
vars == <<calcVars, dbVars, netVars, authVars, schemaVars, dashVars>>

NULL == "null"

\* ---------------------------------------------------------------- bounds
MaxRatingRows == 4      \* rows of the list passed to calculateStoreRatings
MaxStoreId == 2         \* stores.id values handed out
MaxRatingId == 3        \* ratings.id values handed out
MaxInFlight == 2        \* service calls awaiting their answer at one time
MaxHandlers == 2        \* onAuthStateChange callbacks running at one time

\* ---------------------------------------------------------------- schema constants
MinRating == 1
MaxRating == 5

\* ---------------------------------------------------------------- helpers
Range(f) == { f[i] : i \in DOMAIN f }

Abs(x) == IF x < 0 THEN -x ELSE x

RECURSIVE SeqsUpTo(_, _)
SeqsUpTo(S, n) ==
    IF n = 0 THEN { <<>> }
    ELSE LET shorter == SeqsUpTo(S, n - 1)
         IN  shorter \cup { Append(q, x) : q \in { r \in shorter : Len(r) = n - 1 }, x \in S }

\* the lists that hold every element of the set S once
ListsOf(S) ==
    { q \in SeqsUpTo(S, Cardinality(S)) : Len(q) = Cardinality(S) /\ Range(q) = S }

\* the list q with its elements at positions i and i + 1 exchanged
SwapAt(q, i) ==
    [k \in DOMAIN q |-> IF k = i THEN q[i + 1] ELSE IF k = i + 1 THEN q[i] ELSE q[k]]

\* ---------------------------------------------------------------- calculateStoreRatings
\* storeRatings.reduce((acc, r) => acc + r.rating, 0)
SumLast(storeRatings) ==
    IF storeRatings = <<>> THEN 0 ELSE storeRatings[Len(storeRatings)].rating

RECURSIVE SumRatings(_)
SumRatings(storeRatings) ==
    IF storeRatings = <<>> THEN 0
    ELSE SumRatings(SubSeq(storeRatings, 1, Len(storeRatings) - 1))
             + storeRatings[Len(storeRatings)].rating

\* (sum / totalRatings).toFixed(1): Number.prototype.toFixed picks the integer n for
\* which n / 10 - x is as close to zero as possible, the larger n when there are two,
\* and prints it as digits with one decimal. x is the double nearest to
\* sum / totalRatings: with fewer than 20 rows that quotient is either a double itself
\* (its denominator is 1, 2 or 4) or no closer than 1 / (20 * totalRatings) to a
\* midpoint between two tenths, so the n chosen for the double is the n chosen for
\* the exact quotient. The printed string is the pair of its integer digits and its
\* one fraction digit.
ToFixed1Truncate(sum, totalRatings) ==
    LET n == (10 * sum) \div totalRatings
    IN  [whole |-> n \div 10, frac |-> n % 10]

ToFixed1(sum, totalRatings) ==
    LET below == (10 * sum) \div totalRatings
        cand == {below, below + 1}   \* the tenths on either side of the quotient
        dist(n) == Abs(n * totalRatings - 10 * sum)
        n == CHOOSE k \in cand :
                 \A m \in cand : dist(k) < dist(m) \/ (dist(k) = dist(m) /\ k >= m)
    IN  [whole |-> n \div 10, frac |-> n % 10]

\* parseFloat of a string printed by toFixed(1), in tenths
ParseFloat(str) == 10 * str.whole + str.frac

calculateStoreRatings(storeList, ratingList) ==
    [i \in DOMAIN storeList |->
        LET store == storeList[i]
            IsOfStore(r) == r.store_id = store.id
            storeRatings == SelectSeq(ratingList, IsOfStore)
            totalRatings == Len(storeRatings)
        IN  IF totalRatings = 0
            THEN [id |-> store.id, email |-> store.email, owner_id |-> store.owner_id,
                  averageRating |-> 0, totalRatings |-> 0]
            ELSE LET sum == SumRatings(storeRatings)
                     averageRating == ToFixed1(sum, totalRatings)
                 IN  [id |-> store.id, email |-> store.email, owner_id |-> store.owner_id,
                      averageRating |-> ParseFloat(averageRating),
                      totalRatings |-> totalRatings]]

\* ---------------------------------------------------------------- aggregation specification
\* The store rows and the {store_id, rating} rows a caller can pass.
CalcStoreRows ==
    { [id |-> 1, email |-> "a@x", owner_id |-> NULL],
      [id |-> 2, email |-> "b@x", owner_id |-> "o1"] }

CalcRatingRows ==
    [store_id : {1}, rating : MinRating .. MaxRating]
        \cup [store_id : {2}, rating : {MinRating, MaxRating}]

\* the tables, untouched by the aggregation
IdleDb ==
    /\ profiles = {}
    /\ stores = {}
    /\ ratings = {}
    /\ storeSeq = 1
    /\ ratingSeq = 1

IdleNet ==
    /\ reqs = {}
    /\ lastError = "none"

\* The triggers on public.profiles once the schema script has run to its end: its
\* `DROP TABLE IF EXISTS public.profiles` removed on_profile_created with the table, and
\* the statements after it create no trigger on the new table.
SchemaAfterLastScript == triggers = {}

\* useState(null) of selectedStoreId: no store selected (store ids start at 1)
NoStore == 0

\* the dashboards, not mounted
IdleDash ==
    /\ dashboard = NULL
    /\ dashCalls = {}
    /\ shownStores = <<>>
    /\ dashError = "none"
    /\ dashLog = "none"
    /\ latestRead = <<>>
    /\ selectedStoreId = NoStore
    /\ shownRatings = <<>>

\* useState(null)
NoUser == [id |-> NULL, role |-> NULL, email |-> NULL]

\* no answered signUp yet
NoSignUp == [via |-> NULL, data_role |-> NULL, role |-> NULL, id |-> NULL]

\* no call of the context's functions has returned yet
NoResult == [returned |-> FALSE]

\* the session context and the router, untouched by the aggregation and the data calls
IdleAuth ==
    /\ authUsers = {}
    /\ lastSignUp = NoSignUp
    /\ lastResult = NoResult
    /\ session = NULL
    /\ user = NoUser
    /\ loading = TRUE
    /\ handlers = EmptyBag
    /\ booted = FALSE
    /\ logoutPending = "no"
    /\ path = "/"

InitCalc ==
    /\ IdleDb
    /\ IdleNet
    /\ SchemaAfterLastScript
    /\ IdleDash
    /\ IdleAuth
    /\ calcStores \in UNION { ListsOf(S) : S \in SUBSET CalcStoreRows }
    /\ calcRatings \in SeqsUpTo(CalcRatingRows, MaxRatingRows)
    /\ calcResult = <<>>
    /\ calcPhase = "input"

\* the call calculateStoreRatings(stores, ratings)
Calculate ==
    /\ calcPhase = "input"
    /\ calcResult' = calculateStoreRatings(calcStores, calcRatings)
    /\ calcPhase' = "returned"
    /\ UNCHANGED <<schemaVars, dashVars, calcStores, calcRatings, dbVars, netVars, authVars>>

\* the same call on the rating rows in another order (two neighbours exchanged)
RecalculateRatingsReordered ==
    /\ calcPhase # "input"
    /\ \E i \in 1 .. Len(calcRatings) - 1 :
           /\ calcRatings[i] # calcRatings[i + 1]
           /\ calcRatings' = SwapAt(calcRatings, i)
    /\ calcResult' = calculateStoreRatings(calcStores, calcRatings')
    /\ calcPhase' = "reordered"
    /\ UNCHANGED <<schemaVars, dashVars, calcStores, dbVars, netVars, authVars>>

\* the same call on the store rows in another order (two neighbours exchanged)
RecalculateStoresReordered ==
    /\ calcPhase # "input"
    /\ \E i \in 1 .. Len(calcStores) - 1 : calcStores' = SwapAt(calcStores, i)
    /\ calcResult' = calculateStoreRatings(calcStores', calcRatings)
    /\ calcPhase' = "reordered"
    /\ UNCHANGED <<schemaVars, dashVars, calcRatings, dbVars, netVars, authVars>>

NextCalc == Calculate \/ RecalculateRatingsReordered \/ RecalculateStoresReordered

SpecCalc == InitCalc /\ [][NextCalc]_vars

\* ---------------------------------------------------------------- claims on the aggregation
\* the rows of ratingList that belong to store id, counted and summed by recursion from
\* the front of the list
RECURSIVE CountFor(_, _)
CountFor(ratingList, id) ==
    IF ratingList = <<>> THEN 0
    ELSE (IF Head(ratingList).store_id = id THEN 1 ELSE 0) + CountFor(Tail(ratingList), id)

RECURSIVE ScoreSumFor(_, _)
ScoreSumFor(ratingList, id) ==
    IF ratingList = <<>> THEN 0
    ELSE (IF Head(ratingList).store_id = id THEN Head(ratingList).rating ELSE 0)
             + ScoreSumFor(Tail(ratingList), id)

\* C1: after calculateStoreRatings(stores, ratings), with scores in 1..5, the result holds
\* one entry per store, in the stores' order; its totalRatings is the number of rating rows
\* of that store; its averageRating is 0 when there is none, and otherwise a tenth nearest
\* to the mean of their scores (at most half a tenth away from it), the upper one of
\* the two when the mean lies halfway.
C1_AverageAndTotal ==
    calcPhase # "input" =>
        /\ Len(calcResult) = Len(calcStores)
        /\ \A i \in DOMAIN calcStores :
            LET n == CountFor(calcRatings, calcStores[i].id)
                s == ScoreSumFor(calcRatings, calcStores[i].id)
                e == calcResult[i]
            IN  /\ e.id = calcStores[i].id
                /\ e.totalRatings = n
                /\ n = 0 => e.averageRating = 0
                /\ n > 0 => /\ 2 * Abs(e.averageRating * n - 10 * s) <= n
                            /\ e.averageRating = (20 * s + n) \div (2 * n)

\* C1 witness: a store with four ratings whose mean (5/4) lies halfway between two tenths, and a store
\* with no rating, have been aggregated.
C1_Witness ==
    /\ calcPhase = "returned"
    /\ \E i \in DOMAIN calcResult :
           calcResult[i].totalRatings = 4 /\ calcResult[i].averageRating = 13
    /\ \E i \in DOMAIN calcResult : calcResult[i].totalRatings = 0

\* the aggregates of a result list, by store id
Aggregates(res) ==
    { <<res[i].id, res[i].averageRating, res[i].totalRatings>> : i \in DOMAIN res }

\* C8: a call of calculateStoreRatings on the same rows in another order returns for each
\* store the averageRating and totalRatings of the call before. (Exchanges of neighbours
\* generate every permutation of the rating rows and of the store rows.)
C8_OrderIndependent ==
    [][calcPhase # "input" => Aggregates(calcResult') = Aggregates(calcResult)]_vars

\* C8 witness: the call has been repeated on reordered rows, with two stores and rating
\* rows of different scores for one store.
C8_Witness ==
    /\ calcPhase = "reordered"
    /\ Len(calcStores) = 2
    /\ \E i, j \in DOMAIN calcRatings :
           /\ i < j
           /\ calcRatings[i].store_id = calcRatings[j].store_id
           /\ calcRatings[i].rating # calcRatings[j].rating

\* ---------------------------------------------------------------- the database
\* CREATE TYPE public.user_role AS ENUM ('admin', 'store_owner', 'user')
Roles == {"admin", "store_owner", "user"}

\* SELECT role FROM public.profiles WHERE id = auth.uid()
RoleOf(uid) ==
    IF \E p \in profiles : p.id = uid
    THEN (CHOOSE p \in profiles : p.id = uid).role
    ELSE NULL

\* ratings.rating: CHECK (rating >= 1 AND rating <= 5)
RatingCheckUpperOnly(rating) == rating <= MaxRating

RatingCheck(rating) == rating >= MinRating /\ rating <= MaxRating

\* ratings: UNIQUE (user_id, store_id): the rows a proposed row conflicts with
RatingConflicts(row) ==
    { r \in ratings : r.user_id = row.user_id /\ r.store_id = row.store_id }

\* ratings.user_id REFERENCES profiles(id), ratings.store_id REFERENCES stores(id)
RatingForeignKeys(row) ==
    /\ \E p \in profiles : p.id = row.user_id
    /\ \E st \in stores : st.id = row.store_id

\* "Users can insert their own ratings." WITH CHECK (auth.uid() = user_id)
RatingsInsertPolicy(uid, row) == uid = row.user_id

\* "Users can update their own ratings." USING (auth.uid() = user_id)
RatingsUpdatePolicy(uid, row) == uid = row.user_id

\* stores.email: UNIQUE: the rows a proposed email conflicts with
StoreEmailUniqueDropped(email) == {}

StoreEmailConflicts(email) == { st \in stores : st.email = email }

\* stores.owner_id REFERENCES profiles(id), NULL allowed
StoreForeignKeys(row) ==
    row.owner_id = NULL \/ \E p \in profiles : p.id = row.owner_id

\* "Admins can insert stores." WITH CHECK ((SELECT role FROM profiles WHERE id = auth.uid()) = 'admin')
StoresInsertPolicy(uid) == RoleOf(uid) = "admin"

\* ---------------------------------------------------------------- the service calls
\* One call in flight: the operation, the identity of the session that sends it (uid, what
\* auth.uid() is on the server) and its arguments. Fields a call does not use hold
\* NULL (0 for numbers).
BlankReq ==
    [op |-> NULL, uid |-> NULL, store_id |-> 0, user_id |-> NULL, rating |-> 0,
     email |-> NULL, owner_id |-> NULL]

\* The statement submitRating sends, as the server runs it for the caller uid:
\* .upsert({store_id, user_id, rating}, {onConflict: 'store_id, user_id'}), which is
\* INSERT ... ON CONFLICT (store_id, user_id) DO UPDATE SET ... RETURNING *.
\* Yields the error ("none" when the row is returned) and the table after it. The new
\* row's id is drawn from the identity sequence before any check, so every statement
\* uses up one value, also when it updates or fails.
UpsertRatingNoArbiter(uid, new) ==
    IF ~RatingsInsertPolicy(uid, new) THEN [error |-> "rls", rows |-> ratings]
    ELSE IF ~RatingCheck(new.rating) THEN [error |-> "check", rows |-> ratings]
    ELSE IF ~RatingForeignKeys(new) THEN [error |-> "fk", rows |-> ratings]
    ELSE [error |-> "none",
          rows |-> ratings \cup {[id |-> ratingSeq, user_id |-> new.user_id,
                                  store_id |-> new.store_id, rating |-> new.rating]}]

UpsertRatingIgnoreDuplicates(uid, new) ==
    IF ~RatingsInsertPolicy(uid, new) THEN [error |-> "rls", rows |-> ratings]
    ELSE IF ~RatingCheck(new.rating) THEN [error |-> "check", rows |-> ratings]
    ELSE IF ~RatingForeignKeys(new) THEN [error |-> "fk", rows |-> ratings]
    ELSE IF RatingConflicts(new) = {}
    THEN [error |-> "none",
          rows |-> ratings \cup {[id |-> ratingSeq, user_id |-> new.user_id,
                                  store_id |-> new.store_id, rating |-> new.rating]}]
    ELSE [error |-> "none", rows |-> ratings]

UpsertRating(uid, new) ==
    IF ~RatingsInsertPolicy(uid, new) THEN [error |-> "rls", rows |-> ratings]
    ELSE IF ~RatingCheck(new.rating) THEN [error |-> "check", rows |-> ratings]
    ELSE IF ~RatingForeignKeys(new) THEN [error |-> "fk", rows |-> ratings]
    ELSE IF RatingConflicts(new) = {}
    THEN [error |-> "none",
          rows |-> ratings \cup {[id |-> ratingSeq, user_id |-> new.user_id,
                                  store_id |-> new.store_id, rating |-> new.rating]}]
    ELSE IF \E c \in RatingConflicts(new) : ~RatingsUpdatePolicy(uid, c)
    THEN [error |-> "rls", rows |-> ratings]
    ELSE [error |-> "none",
          rows |-> (ratings \ RatingConflicts(new))
                       \cup { [c EXCEPT !.rating = new.rating] : c \in RatingConflicts(new) }]

\* The statement createStore sends: .insert([data]).select('*').single()
InsertStore(uid, new) ==
    IF ~StoresInsertPolicy(uid) THEN [error |-> "rls", rows |-> stores]
    ELSE IF ~StoreForeignKeys(new) THEN [error |-> "fk", rows |-> stores]
    ELSE IF StoreEmailConflicts(new.email) # {}
    THEN [error |-> "unique", rows |-> stores]
    ELSE [error |-> "none",
          rows |-> stores \cup {[id |-> storeSeq, email |-> new.email, owner_id |-> new.owner_id]}]

\* submitRating(storeId, userId, rating), called in the session of uid: the upsert is sent
submitRating(uid, storeId, userId, rating) ==
    /\ Cardinality(reqs) < MaxInFlight
    /\ reqs' = reqs \cup {[BlankReq EXCEPT !.op = "submitRating", !.uid = uid, !.store_id = storeId,
                                            !.user_id = userId, !.rating = rating]}
    /\ UNCHANGED <<schemaVars, dashVars, calcVars, dbVars, lastError, authVars>>

\* submitRating: the server runs the upsert and the awaited answer arrives:
\* `if (error) throw error; return data`
submitRatingAnswered(r) ==
    /\ r.op = "submitRating"
    /\ LET new == [user_id |-> r.user_id, store_id |-> r.store_id, rating |-> r.rating]
           res == UpsertRating(r.uid, new)
       IN  /\ ratingSeq <= MaxRatingId
           /\ ratings' = res.rows
           /\ ratingSeq' = ratingSeq + 1
           /\ lastError' = res.error
    /\ reqs' = reqs \ {r}
    /\ UNCHANGED <<schemaVars, dashVars, calcVars, profiles, stores, storeSeq, authVars>>

\* createStore(data), called in the session of uid: the insert is sent
createStore(uid, email, owner_id) ==
    /\ Cardinality(reqs) < MaxInFlight
    /\ reqs' = reqs \cup {[BlankReq EXCEPT !.op = "createStore", !.uid = uid, !.email = email,
                                            !.owner_id = owner_id]}
    /\ UNCHANGED <<schemaVars, dashVars, calcVars, dbVars, lastError, authVars>>

\* createStore: the server runs the insert and the awaited answer arrives:
\* `if (error) throw error; return store`
createStoreAnswered(r) ==
    /\ r.op = "createStore"
    /\ LET res == InsertStore(r.uid, [email |-> r.email, owner_id |-> r.owner_id])
       IN  /\ storeSeq <= MaxStoreId
           /\ stores' = res.rows
           /\ storeSeq' = storeSeq + 1
           /\ lastError' = res.error
    /\ reqs' = reqs \ {r}
    /\ UNCHANGED <<schemaVars, dashVars, calcVars, profiles, ratings, ratingSeq, authVars>>

\* ---------------------------------------------------------------- service specification
\* The identities of the service specification and their profile rows.
DataProfiles ==
    { [id |-> "a1", role |-> "admin"], [id |-> "o1", role |-> "store_owner"],
      [id |-> "u1", role |-> "user"], [id |-> "u2", role |-> "user"] }

\* the arguments the callers pass
\* submitRating: <<session, storeId, userId, rating>>: two raters on one store, one of
\* them on a second store, scores inside and outside 1..5, and a call that names
\* another user
SubmitArgs ==
    { <<"u1", 1, "u1", 2>>, <<"u1", 1, "u1", 5>>, <<"u1", 1, "u1", 0>>,
      <<"u2", 1, "u2", 2>>, <<"u2", 1, "u2", 6>>,
      <<"u1", 2, "u1", 5>>,
      <<"u2", 1, "u1", 5>> }

\* createStore: <<session, email, owner_id>>: the admin with two emails, and a user
CreateStoreArgs ==
    { <<"a1", "a@x", "o1">>, <<"a1", "b@x", NULL>>, <<"u1", "b@x", "o1">> }

IdleCalc ==
    /\ calcStores = <<>>
    /\ calcRatings = <<>>
    /\ calcResult = <<>>
    /\ calcPhase = "input"

Init ==
    /\ IdleCalc
    /\ IdleAuth
    /\ profiles = DataProfiles
    /\ stores = {}
    /\ ratings = {}
    /\ storeSeq = 1
    /\ ratingSeq = 1
    /\ IdleNet
    /\ SchemaAfterLastScript
    /\ IdleDash

Next ==
    \/ \E a \in SubmitArgs : submitRating(a[1], a[2], a[3], a[4])
    \/ \E r \in reqs : submitRatingAnswered(r)
    \/ \E a \in CreateStoreArgs : createStore(a[1], a[2], a[3])
    \/ \E r \in reqs : createStoreAnswered(r)

Spec == Init /\ [][Next]_vars

\* ---------------------------------------------------------------- the router (App)
Dashboards == {"AdminDashboard", "UserDashboard", "StoreOwnerDashboard"}

\* getDashboardPath(role)
getDashboardPathNoStoreOwner(role) ==
    CASE role = "admin" -> "/admin"
      [] role = "user" -> "/user"
      [] OTHER -> "/login"

getDashboardPath(role) ==
    CASE role = "admin" -> "/admin"
      [] role = "user" -> "/user"
      [] role = "store_owner" -> "/store-owner"
      [] OTHER -> "/login"

\* {user.role === 'admin' && <Route path="/admin" element={<AdminDashboard />} />}
AdminRoute(u, p) == u.role = "admin" /\ p = "/admin"

\* {user.role === 'user' && <Route path="/user" element={<UserDashboard />} />}
UserRouteAnyRole(u, p) == p = "/user"

UserRoute(u, p) == u.role = "user" /\ p = "/user"

\* {user.role === 'store_owner' && <Route path="/store-owner" element={<StoreOwnerDashboard />} />}
StoreOwnerRoute(u, p) == u.role = "store_owner" /\ p = "/store-owner"

\* the routes mounted when `user` is set (lines 36-44)
ProtectedRoutes(u, p) ==
    IF AdminRoute(u, p) THEN [view |-> "AdminDashboard", to |-> NULL]
    ELSE IF UserRoute(u, p) THEN [view |-> "UserDashboard", to |-> NULL]
    ELSE IF StoreOwnerRoute(u, p) THEN [view |-> "StoreOwnerDashboard", to |-> NULL]
    ELSE IF p = "/" THEN [view |-> "Navigate", to |-> getDashboardPath(u.role)]
    ELSE [view |-> "Navigate", to |-> getDashboardPath(u.role)]

\* the routes mounted when `user` is null (lines 49-53)
PublicRoutesNoCatchAll(p) ==
    IF p = "/login" THEN [view |-> "Login", to |-> NULL]
    ELSE IF p = "/register" THEN [view |-> "Register", to |-> NULL]
    ELSE [view |-> "none", to |-> NULL]

PublicRoutes(p) ==
    IF p = "/login" THEN [view |-> "Login", to |-> NULL]
    ELSE IF p = "/register" THEN [view |-> "Register", to |-> NULL]
    ELSE [view |-> "Navigate", to |-> "/login"]

\* what AppRouter returns for the session state (u, ld) at location p: the element of
\* the matching route, <Navigate to=... replace /> being [view |-> "Navigate", to |-> ...]
AppRouterWithoutSpinner(u, ld, p) ==
    IF u # NoUser THEN ProtectedRoutes(u, p) ELSE PublicRoutes(p)

AppRouter(u, ld, p) ==
    IF ld THEN [view |-> "LoadingSpinner", to |-> NULL]
    ELSE IF u # NoUser THEN ProtectedRoutes(u, p)
    ELSE PublicRoutes(p)

\* what the router shows in the current state
Rendered == AppRouter(user, loading, path)

\* the locations a browser may ask for once the application is open at "/"; "/other"
\* matches no route but "*"
Paths == {"/login", "/register", "/admin", "/user", "/store-owner", "/other"}

\* the browser asks for location p
RequestPath(p) ==
    /\ path' = p
    /\ UNCHANGED <<schemaVars, dashVars, calcVars, dbVars, netVars, authUsers, lastSignUp, lastResult, session, user, loading,
                   handlers, booted, logoutPending>>

\* <Navigate to=... replace /> takes effect
FollowNavigate ==
    /\ Rendered.view = "Navigate"
    /\ path' = Rendered.to
    /\ UNCHANGED <<schemaVars, dashVars, calcVars, dbVars, netVars, authUsers, lastSignUp, lastResult, session, user, loading,
                   handlers, booted, logoutPending>>

\* ---------------------------------------------------------------- the session context (AuthProvider)
\* session.user of an event for identity uid: the auth identity, whose own `role` is the
\* database role of the token, not the application role
SessionUser(uid) ==
    [id |-> uid, role |-> "authenticated",
     email |-> (CHOOSE a \in authUsers : a.id = uid).email]

\* { ...session.user, ...profile }: the profile's value wins on a field both hold
Merge(sessionUser, profile) ==
    [f \in DOMAIN sessionUser \cup DOMAIN profile |->
        IF f \in DOMAIN profile THEN profile[f] ELSE sessionUser[f]]

\* a callback run for identity uid, about to do what pc names
Handler(uid, pc) == [uid |-> uid, pc |-> pc]

Spawn(h) == handlers (+) SetToBag({h})

Move(h, pc) == (handlers (-) SetToBag({h})) (+) SetToBag({Handler(h.uid, pc)})

Done(h) == handlers (-) SetToBag({h})

\* The onAuthStateChange callback is called with the session of identity uid (NULL: no
\* session) and runs to its first await: setLoading(true), then either
\* `await getProfile(session.user.id)` or setUser(null); setLoading(false).
OnAuthStateChange(uid) ==
    IF uid = NULL
    THEN /\ user' = NoUser
         /\ loading' = FALSE
         /\ UNCHANGED handlers
    ELSE /\ BagCardinality(handlers) < MaxHandlers
         /\ handlers' = Spawn(Handler(uid, "getProfile"))
         /\ loading' = TRUE
         /\ UNCHANGED user

\* the subscription delivers the session the client starts with
InitialSession ==
    /\ ~booted
    /\ booted' = TRUE
    /\ OnAuthStateChange(session)
    /\ UNCHANGED <<schemaVars, dashVars, calcVars, dbVars, netVars, authUsers, lastSignUp, lastResult, session, logoutPending, path>>

\* the client refreshes its token and reports the refreshed session
TokenRefreshed ==
    /\ booted
    /\ session # NULL
    /\ OnAuthStateChange(session)
    /\ UNCHANGED <<schemaVars, dashVars, calcVars, dbVars, netVars, authUsers, lastSignUp, lastResult, session, booted,
                   logoutPending, path>>

\* getProfile(userId) returned the row: `if (profile) setUser({...session.user, ...profile})`,
\* then setLoading(false)
HandlerProfileFound(h) ==
    /\ h.pc = "getProfile"
    /\ \E p \in profiles :
           /\ p.id = h.uid
           /\ user' = Merge(SessionUser(h.uid), p)
    /\ loading' = FALSE
    /\ handlers' = Done(h)
    /\ UNCHANGED <<schemaVars, dashVars, calcVars, dbVars, netVars, authUsers, lastSignUp, lastResult, session, booted,
                   logoutPending, path>>

\* getProfile(userId) threw (no row for .single(), or any other error of the query): the
\* catch block calls supabase.auth.signOut() and awaits it
HandlerProfileFailedStaysSignedIn(h) ==
    /\ h.pc = "getProfile"
    /\ user' = SessionUser(h.uid)
    /\ loading' = FALSE
    /\ handlers' = Done(h)
    /\ UNCHANGED <<schemaVars, dashVars, calcVars, dbVars, netVars, authUsers, lastSignUp, lastResult, session, booted,
                   logoutPending, path>>

HandlerProfileFailed(h) ==
    /\ h.pc = "getProfile"
    /\ handlers' = Move(h, "signOut")
    /\ UNCHANGED <<schemaVars, dashVars, calcVars, dbVars, netVars, authUsers, lastSignUp, lastResult, session, user, loading,
                   booted, logoutPending, path>>

\* supabase.auth.signOut() as the client runs it: when the server accepts it (ok) the
\* session is removed and the subscription reports SIGNED_OUT with no session; when the
\* request fails the session stays and nothing is reported
SignOutEffect(ok) ==
    IF ok
    THEN /\ session' = NULL
         /\ user' = NoUser
         /\ loading' = FALSE
    ELSE UNCHANGED <<session, user, loading>>

\* the signOut awaited by the callback has run
HandlerSignOutAnswered(h, ok) ==
    /\ h.pc = "signOut"
    /\ SignOutEffect(ok)
    /\ handlers' = Move(h, "afterSignOut")
    /\ UNCHANGED <<schemaVars, dashVars, calcVars, dbVars, netVars, authUsers, lastSignUp, lastResult, booted, logoutPending, path>>

\* the callback resumes after `await supabase.auth.signOut()`: setUser(null); setLoading(false)
HandlerAfterSignOut(h) ==
    /\ h.pc = "afterSignOut"
    /\ user' = NoUser
    /\ loading' = FALSE
    /\ handlers' = Done(h)
    /\ UNCHANGED <<schemaVars, dashVars, calcVars, dbVars, netVars, authUsers, lastSignUp, lastResult, session, booted,
                   logoutPending, path>>

\* `if (error) return { success: false, error: error.message }; return { success: true }`
\* for the error the auth call reported ("none": no error; otherwise its message)
AuthResultAlwaysSuccess(error) == [success |-> TRUE]

AuthResult(error) ==
    IF error # "none" THEN [success |-> FALSE, error |-> error] ELSE [success |-> TRUE]

\* login(email, password) from the Login view; `found` tells whether the credentials are
\* those of identity id. A success makes id the session and is reported as SIGNED_IN.
login(id, found) ==
    /\ Rendered.view = "Login"
    /\ \E a \in authUsers : a.id = id
    /\ IF found
       THEN /\ session' = id
            /\ OnAuthStateChange(id)
            /\ lastError' = "none"
            /\ lastResult' = AuthResult("none")
       ELSE /\ lastError' = "auth"
            /\ lastResult' = AuthResult("auth")
            /\ UNCHANGED <<session, user, loading, handlers>>
    /\ UNCHANGED <<schemaVars, dashVars, calcVars, dbVars, reqs, authUsers, lastSignUp, booted, logoutPending, path>>

\* logout() from a dashboard: supabase.auth.signOut() is called and awaited
logout ==
    /\ Rendered.view \in Dashboards
    /\ logoutPending = "no"
    /\ logoutPending' = "signOut"
    /\ UNCHANGED <<schemaVars, dashVars, calcVars, dbVars, netVars, authUsers, lastSignUp, lastResult, session, user, loading,
                   handlers, booted, path>>

\* the signOut awaited by logout() has run
logoutSignOutAnswered(ok) ==
    /\ logoutPending = "signOut"
    /\ SignOutEffect(ok)
    /\ logoutPending' = "return"
    /\ UNCHANGED <<schemaVars, dashVars, calcVars, dbVars, netVars, authUsers, lastSignUp, lastResult, handlers, booted, path>>

\* logout() resumes after the await: setUser(null)
logoutReturnedIfSignedOut ==
    /\ logoutPending = "return"
    /\ user' = IF session = NULL THEN NoUser ELSE user
    /\ logoutPending' = "no"
    /\ UNCHANGED <<schemaVars, dashVars, calcVars, dbVars, netVars, authUsers, lastSignUp, lastResult, session, loading,
                   handlers, booted, path>>

logoutReturned ==
    /\ logoutPending = "return"
    /\ user' = NoUser
    /\ logoutPending' = "no"
    /\ UNCHANGED <<schemaVars, dashVars, calcVars, dbVars, netVars, authUsers, lastSignUp, lastResult, session, loading,
                   handlers, booted, path>>

\* updatePassword(currentPassword, newPassword) from a dashboard's layout:
\* supabase.auth.updateUser({password}). With no session, or when the server refuses
\* (~ok), the call reports an error; otherwise the client reports USER_UPDATED with
\* the session.
updatePassword(ok) ==
    /\ Rendered.view \in Dashboards
    /\ IF ok /\ session # NULL
       THEN /\ OnAuthStateChange(session)
            /\ lastError' = "none"
            /\ lastResult' = AuthResult("none")
       ELSE /\ lastError' = "auth"
            /\ lastResult' = AuthResult("auth")
            /\ UNCHANGED <<user, loading, handlers>>
    /\ UNCHANGED <<schemaVars, dashVars, calcVars, dbVars, reqs, authUsers, lastSignUp, session, booted,
                   logoutPending, path>>

\* register: options.data.role of the signUp it sends (`role: 'user'`), whatever
\* userData.role holds
RegisterMetadataRoleFromUserData(dataRole) == dataRole

RegisterMetadataRole(dataRole) == "user"

\* handle_new_user: the role of the profile row inserted for a new identity:
\* COALESCE((raw_user_meta_data->>'role')::public.user_role, 'user')
HandleNewUserRole(metaRole) == IF metaRole = NULL THEN "user" ELSE metaRole

\* handle_new_user: the rows it inserts into public.profiles for the new identity
HandleNewUserUnlessAdmin(id, metaRole) ==
    IF HandleNewUserRole(metaRole) = "admin" THEN {}
    ELSE {[id |-> id, role |-> HandleNewUserRole(metaRole)]}

HandleNewUser(id, metaRole) == {[id |-> id, role |-> HandleNewUserRole(metaRole)]}

\* the ids the server gives to new identities, in this order
NewIds == <<"n1">>

FreshIds == { i \in DOMAIN NewIds : \A a \in authUsers : a.id # NewIds[i] }

\* supabase.auth.signUp({email, password, options: {data: {role: metaRole}}}) and its
\* answer: an email already registered, or a metadata role that is no user_role (the
\* trigger's cast fails and the insert into auth.users is rolled back), is an error.
\* Otherwise the identity is inserted and on_auth_user_created runs handle_new_user.
\* When the project signs new identities in at once (signedIn) the client's session
\* becomes the new identity and SIGNED_IN is reported.
signUp(via, dataRole, metaRole, email, signedIn) ==
    IF (\E a \in authUsers : a.email = email) \/ (metaRole # NULL /\ metaRole \notin Roles)
    THEN /\ lastError' = "auth"
         /\ lastResult' = AuthResult("auth")
         /\ ~signedIn
         /\ UNCHANGED <<authUsers, profiles, lastSignUp, session, user, loading, handlers>>
    ELSE /\ FreshIds # {}
         /\ LET id == NewIds[CHOOSE i \in FreshIds : \A j \in FreshIds : i <= j]
            IN  /\ authUsers' = authUsers \cup {[id |-> id, email |-> email]}
                /\ profiles' = profiles \cup HandleNewUser(id, metaRole)
                /\ lastSignUp' = [via |-> via, data_role |-> dataRole, role |-> metaRole,
                                  id |-> id]
                /\ IF signedIn
                   THEN /\ session' = id
                        /\ OnAuthStateChange(id)
                   ELSE UNCHANGED <<session, user, loading, handlers>>
         /\ lastError' = "none"
         /\ lastResult' = AuthResult("none")

\* register(userData) from the Register view
register(dataRole, email, signedIn) ==
    /\ Rendered.view = "Register"
    /\ signUp("register", dataRole, RegisterMetadataRole(dataRole), email, signedIn)
    /\ UNCHANGED <<schemaVars, dashVars, calcVars, stores, ratings, storeSeq, ratingSeq, reqs, booted,
                   logoutPending, path>>

\* createUser(userData) from the admin dashboard (handleAddUser), with the role chosen
\* in the form
createUser(role, email, signedIn) ==
    /\ Rendered.view = "AdminDashboard"
    /\ signUp("createUser", role, role, email, signedIn)
    /\ UNCHANGED <<schemaVars, dashVars, calcVars, stores, ratings, storeSeq, ratingSeq, reqs, booted,
                   logoutPending, path>>

\* "Users can update their own profile." FOR UPDATE USING (auth.uid() = id)
ProfilesUpdatePolicy(uid, row) == uid = row.id

\* An UPDATE of public.profiles sent in the session of an identity, setting role: the
\* policy admits it for the identity's own row, and names no column.
updateProfileAs(uid, role) ==
    /\ \E p \in profiles :
           /\ ProfilesUpdatePolicy(uid, p)
           /\ p.role # role
           /\ profiles' = (profiles \ {p}) \cup {[p EXCEPT !.role = role]}
    /\ UNCHANGED <<schemaVars, dashVars, calcVars, stores, ratings, storeSeq, ratingSeq, netVars, authVars>>

\* the same statement sent in the session the client holds
updateProfile(role) ==
    /\ session # NULL
    /\ updateProfileAs(session, role)

\* ---------------------------------------------------------------- session specification
\* The identities at the start: an admin, a user, and an identity registered before the
\* schema script last ran, whose profile row went with DROP TABLE public.profiles.
AuthIdentities ==
    { [id |-> "a1", email |-> "a@x"], [id |-> "u1", email |-> "u@x"],
      [id |-> "g1", email |-> "g@x"] }

AuthProfiles == { [id |-> "a1", role |-> "admin"], [id |-> "u1", role |-> "user"] }

\* register: <<userData.role, email>>; createUser: <<role, email>>
RegisterArgs == { <<"admin", "n@x">>, <<"user", "a@x">> }
CreateUserArgs == { <<"admin", "n@x">>, <<"store_owner", "n@x">> }
UpdateRoleArgs == {"admin"}

InitAuth ==
    /\ IdleCalc
    /\ IdleNet
    /\ SchemaAfterLastScript
    /\ IdleDash
    /\ stores = {}
    /\ ratings = {}
    /\ storeSeq = 1
    /\ ratingSeq = 1
    /\ profiles = AuthProfiles
    /\ authUsers = AuthIdentities
    /\ lastSignUp = NoSignUp
    /\ lastResult = NoResult
    /\ session \in {NULL} \cup { a.id : a \in AuthIdentities }
    /\ user = NoUser
    /\ loading = TRUE
    /\ handlers = EmptyBag
    /\ booted = FALSE
    /\ logoutPending = "no"
    /\ path = "/"

\* the same start with the trigger in place before any identity was registered: every
\* identity has the profile row the trigger gave it
InitRegistered ==
    /\ IdleCalc
    /\ IdleNet
    /\ SchemaAfterLastScript
    /\ IdleDash
    /\ stores = {}
    /\ ratings = {}
    /\ storeSeq = 1
    /\ ratingSeq = 1
    /\ profiles = AuthProfiles
    /\ authUsers = { a \in AuthIdentities : \E p \in AuthProfiles : p.id = a.id }
    /\ lastSignUp = NoSignUp
    /\ lastResult = NoResult
    /\ session \in {NULL} \cup { p.id : p \in AuthProfiles }
    /\ user = NoUser
    /\ loading = TRUE
    /\ handlers = EmptyBag
    /\ booted = FALSE
    /\ logoutPending = "no"
    /\ path = "/"

NextAuth ==
    \/ \E p \in Paths : RequestPath(p)
    \/ FollowNavigate
    \/ InitialSession
    \/ TokenRefreshed
    \/ \E h \in BagToSet(handlers) : HandlerProfileFound(h)
    \/ \E h \in BagToSet(handlers) : HandlerProfileFailed(h)
    \/ \E h \in BagToSet(handlers), ok \in BOOLEAN : HandlerSignOutAnswered(h, ok)
    \/ \E h \in BagToSet(handlers) : HandlerAfterSignOut(h)
    \/ \E a \in AuthIdentities, found \in BOOLEAN : login(a.id, found)
    \/ logout
    \/ \E ok \in BOOLEAN : logoutSignOutAnswered(ok)
    \/ logoutReturned
    \/ \E a \in RegisterArgs, signedIn \in BOOLEAN : register(a[1], a[2], signedIn)
    \/ \E a \in CreateUserArgs, signedIn \in BOOLEAN : createUser(a[1], a[2], signedIn)
    \/ \E ok \in BOOLEAN : updatePassword(ok)
    \/ \E role \in UpdateRoleArgs : updateProfile(role)

SpecAuth == InitAuth /\ [][NextAuth]_vars

SpecRegistered == InitRegistered /\ [][NextAuth]_vars

\* ---------------------------------------------------------------- statements the policies decide
\* Statements on stores and ratings that the application's pages do not send but that
\* any holder of a session can send with the public client key; the row-level
\* policies and the constraints are all that decides them. Each is run by the server
\* in one step for the caller uid.

\* "Store owners can update their own stores." USING (auth.uid() = owner_id AND
\* (SELECT role ...) = 'store_owner'), "Admins can update any store." USING (... = 'admin');
\* with no WITH CHECK the same expression is applied to the new row
StoresUpdatePolicyAnyone(uid, row) == TRUE

StoresUpdatePolicy(uid, row) ==
    \/ uid = row.owner_id /\ RoleOf(uid) = "store_owner"
    \/ RoleOf(uid) = "admin"

\* "Admins can delete stores." USING ((SELECT role ...) = 'admin')
StoresDeletePolicy(uid) == RoleOf(uid) = "admin"

\* "Users can delete their own ratings." USING (auth.uid() = user_id)
RatingsDeletePolicyAnyone(uid, row) == TRUE

RatingsDeletePolicy(uid, row) == uid = row.user_id

\* UPDATE public.stores SET email = ..., owner_id = ... WHERE id = ...: rows the USING
\* expression hides are skipped without an error
updateStore(uid, id, email, owner_id) ==
    /\ LET target == { st \in stores : st.id = id /\ StoresUpdatePolicy(uid, st) }
           new == { [st EXCEPT !.email = email, !.owner_id = owner_id] : st \in target }
       IN  IF target = {} THEN lastError' = "none" /\ UNCHANGED stores
           ELSE IF \E n \in new : ~StoresUpdatePolicy(uid, n)
           THEN lastError' = "rls" /\ UNCHANGED stores
           ELSE IF \E n \in new : ~StoreForeignKeys(n)
           THEN lastError' = "fk" /\ UNCHANGED stores
           ELSE IF StoreEmailConflicts(email) \ target # {}
           THEN lastError' = "unique" /\ UNCHANGED stores
           ELSE lastError' = "none" /\ stores' = (stores \ target) \cup new
    /\ UNCHANGED <<schemaVars, dashVars, calcVars, profiles, ratings, storeSeq, ratingSeq, reqs, authVars>>

\* DELETE FROM public.stores WHERE id = ...; ratings.store_id is ON DELETE CASCADE
deleteStore(uid, id) ==
    /\ LET target == { st \in stores : st.id = id /\ StoresDeletePolicy(uid) }
       IN  /\ stores' = stores \ target
           /\ ratings' = { r \in ratings : \A st \in target : r.store_id # st.id }
    /\ lastError' = "none"
    /\ UNCHANGED <<schemaVars, dashVars, calcVars, profiles, storeSeq, ratingSeq, reqs, authVars>>

\* UPDATE public.ratings SET rating = ... WHERE id = ...
updateRating(uid, id, rating) ==
    /\ LET target == { r \in ratings : r.id = id /\ RatingsUpdatePolicy(uid, r) }
       IN  IF target = {} THEN lastError' = "none" /\ UNCHANGED ratings
           ELSE IF ~RatingCheck(rating) THEN lastError' = "check" /\ UNCHANGED ratings
           ELSE /\ lastError' = "none"
                /\ ratings' = (ratings \ target) \cup { [r EXCEPT !.rating = rating] : r \in target }
    /\ UNCHANGED <<schemaVars, dashVars, calcVars, profiles, stores, storeSeq, ratingSeq, reqs, authVars>>

\* DELETE FROM public.ratings WHERE id = ...
deleteRating(uid, id) ==
    /\ ratings' = { r \in ratings : ~(r.id = id /\ RatingsDeletePolicy(uid, r)) }
    /\ lastError' = "none"
    /\ UNCHANGED <<schemaVars, dashVars, calcVars, profiles, stores, storeSeq, ratingSeq, reqs, authVars>>

\* the arguments: <<session, ...>>
\* updateStore: the owner edits its store, a user tries to take it over, the admin
\* takes the owner off
UpdateStoreArgs ==
    { <<"o1", 1, "c@x", "o1">>, <<"u1", 1, "c@x", "u1">>, <<"a1", 1, "a@x", NULL>> }
DeleteStoreArgs == { <<"a1", 1>>, <<"u1", 1>>, <<"o1", 1>> }
UpdateRatingArgs == { <<"u1", 1, 4>>, <<"u2", 1, 4>> }
DeleteRatingArgs == { <<"u1", 1>>, <<"u2", 1>> }
\* the store owner gives up its role
UpdateProfileArgs == { <<"o1", "user">> }

\* submitRating and createStore as the pages call them, and a rating sent in another
\* user's name
PolicySubmitArgs == { <<"u1", 1, "u1", 2>>, <<"u2", 1, "u2", 5>>, <<"u2", 1, "u1", 5>> }
PolicyCreateStoreArgs == { <<"a1", "a@x", "o1">>, <<"u1", "b@x", "o1">> }

NextPolicy ==
    \/ \E a \in PolicySubmitArgs : submitRating(a[1], a[2], a[3], a[4])
    \/ \E r \in reqs : submitRatingAnswered(r)
    \/ \E a \in PolicyCreateStoreArgs : createStore(a[1], a[2], a[3])
    \/ \E r \in reqs : createStoreAnswered(r)
    \/ \E a \in UpdateStoreArgs : updateStore(a[1], a[2], a[3], a[4])
    \/ \E a \in DeleteStoreArgs : deleteStore(a[1], a[2])
    \/ \E a \in UpdateRatingArgs : updateRating(a[1], a[2], a[3])
    \/ \E a \in DeleteRatingArgs : deleteRating(a[1], a[2])
    \/ \E a \in UpdateProfileArgs : updateProfileAs(a[1], a[2])

SpecPolicy == Init /\ [][NextPolicy]_vars

\* ---------------------------------------------------------------- reads
\* the rows of a table as the list a select returns, here in id order
RECURSIVE RowsById(_)
RowsById(rows) ==
    IF rows = {} THEN <<>>
    ELSE LET first == CHOOSE r \in rows : \A o \in rows : r.id <= o.id
         IN  <<first>> \o RowsById(rows \ {first})

\* .select('store_id, rating')
StoreIdAndRating(rowList) ==
    [i \in DOMAIN rowList |-> [store_id |-> rowList[i].store_id, rating |-> rowList[i].rating]]

\* getAllStoresWithRatings() on the tables storeRows and ratingRows
getAllStoresWithRatings(storeRows, ratingRows) ==
    calculateStoreRatings(RowsById(storeRows), StoreIdAndRating(RowsById(ratingRows)))

\* the aggregates getAllStoresWithRatings reports for store id (<<0, 0>> for no such store)
AggregateOf(storeRows, ratingRows, id) ==
    LET res == getAllStoresWithRatings(storeRows, ratingRows)
    IN  IF \E i \in DOMAIN res : res[i].id = id
        THEN LET e == res[CHOOSE i \in DOMAIN res : res[i].id = id]
             IN  <<e.averageRating, e.totalRatings>>
        ELSE <<0, 0>>

\* ---------------------------------------------------------------- claims on the service
\* the calls answered by a step
Answered == reqs \ reqs'

\* C2: in every reachable state the ratings table holds at most one row per
\* (user_id, store_id) pair, whatever submitRating calls were sent and in whatever order
\* the server answered them.
C2_OneRatingPerUserAndStore ==
    \A r1, r2 \in ratings :
        (r1.user_id = r2.user_id /\ r1.store_id = r2.store_id) => r1 = r2

\* C2 witness: two submissions succeeded and the table holds one row: the second one
\* overwrote the rating of the first, and a third submission for the pair is in flight.
C2_Witness ==
    /\ ratings = {[id |-> 1, user_id |-> "u1", store_id |-> 1, rating |-> 5]}
    /\ ratingSeq = 3
    /\ lastError = "none"
    /\ \E q \in reqs : q.op = "submitRating" /\ q.user_id = "u1" /\ q.store_id = 1

\* the rows of user u for store st in the table rows
RowsOf(rows, u, st) == { r \in rows : r.user_id = u /\ r.store_id = st }

\* the sum of the scores of the rows of store st
RECURSIVE ScoreSum(_, _)
ScoreSum(rows, st) ==
    IF rows = {} THEN 0
    ELSE LET r == CHOOSE x \in rows : TRUE
         IN  (IF r.store_id = st THEN r.rating ELSE 0) + ScoreSum(rows \ {r}, st)

\* C3: a submitRating(S, U, r2) that succeeds leaves U with one row for S, of score r2.
\* If U had a rating for S, totalRatings(S) is unchanged and averageRating(S) is the mean
\* of the former scores with U's former score replaced by r2; if U had none, totalRatings(S)
\* grows by one (so a first rating followed by a re-rating adds exactly one).
C3_ReRatingReplaces ==
    [][\A q \in Answered :
          (q.op = "submitRating" /\ lastError' = "none") =>
              LET before == AggregateOf(stores, ratings, q.store_id)
                  after == AggregateOf(stores', ratings', q.store_id)
                  old == RowsOf(ratings, q.user_id, q.store_id)
              IN  /\ \E r \in ratings' : /\ RowsOf(ratings', q.user_id, q.store_id) = {r}
                                          /\ r.rating = q.rating
                  /\ old # {} =>
                        /\ after[2] = before[2]
                        /\ \A o \in old :
                              after[1] = ParseFloat(ToFixed1(
                                  ScoreSum(ratings, q.store_id) - o.rating + q.rating,
                                  before[2]))
                  /\ old = {} => after[2] = before[2] + 1
      ]_vars

\* C3 witness: store 1 holds u2's rating 2 and u1's rating 5 after three submissions, the
\* latest a success: one of the two was re-rated, and the store reports 3.5 over 2 ratings.
C3_Witness ==
    /\ ratings = { [id |-> 1, user_id |-> "u2", store_id |-> 1, rating |-> 2],
                   [id |-> 2, user_id |-> "u1", store_id |-> 1, rating |-> 5] }
    /\ AggregateOf(stores, ratings, 1) = <<35, 2>>
    /\ ratingSeq = 4
    /\ lastError = "none"

\* C9: a submitRating whose score is outside 1..5 is answered with an error and leaves
\* the ratings table as it was.
C9_OutOfRangeRejected ==
    [][\A q \in Answered :
          (q.op = "submitRating" /\ (q.rating < MinRating \/ q.rating > MaxRating)) =>
              (lastError' # "none" /\ ratings' = ratings)
      ]_vars

\* C9 witness: the rater already holds a rating for store 1 and the latest answer is the
\* CHECK violation of an out-of-range submission.
C9_Witness ==
    /\ lastError = "check"
    /\ \E r \in ratings : r.user_id = "u1" /\ r.store_id = 1

\* C10: a createStore whose email is that of an existing store is answered with an error
\* and inserts no row, and in every reachable state no two stores share an email.
C10_StoreEmailUnique ==
    /\ [](\A s1, s2 \in stores : s1.email = s2.email => s1 = s2)
    /\ [][\A q \in Answered :
             (q.op = "createStore" /\ \E st \in stores : st.email = q.email) =>
                 (lastError' # "none" /\ stores' = stores)
         ]_vars

\* C10 witness: an admin's createStore was answered with the unique violation while a
\* store exists.
C10_Witness ==
    /\ lastError = "unique"
    /\ stores # {}

\* ---------------------------------------------------------------- claims on the session and the router
\* the dashboard of a role
DashboardOf(role) ==
    CASE role = "admin" -> "AdminDashboard"
      [] role = "user" -> "UserDashboard"
      [] role = "store_owner" -> "StoreOwnerDashboard"
      [] OTHER -> "none"

\* C4: whatever location is asked for, a dashboard the router renders is the dashboard
\* of the role held by the session state `user`; with user = null (anonymous) no
\* dashboard is rendered.
C4_DashboardOfRole ==
    Rendered.view \in Dashboards =>
        /\ user # NoUser
        /\ Rendered.view = DashboardOf(user.role)

\* an admin session is settled and the location of the user dashboard is asked for
C4_Witness ==
    /\ ~loading
    /\ user # NoUser
    /\ user.role = "admin"
    /\ path = "/user"
    /\ Rendered.view = "Navigate"

NoProfile(uid) == \A p \in profiles : p.id # uid

\* C5: a callback run whose getProfile finds no row for the event's identity calls
\* supabase.auth.signOut(), waits for it, then sets user to null; and no dashboard is
\* rendered for a user whose identity has no profile row.
C5_NoProfileSignsOut ==
    /\ [](Rendered.view \in Dashboards => ~NoProfile(user.id))
    /\ [][\A h \in BagToSet(handlers) :
             (CopiesIn(h, handlers') < CopiesIn(h, handlers)) =>
                 CASE h.pc = "getProfile" /\ NoProfile(h.uid) ->
                          /\ CopiesIn(Handler(h.uid, "signOut"), handlers')
                                 > CopiesIn(Handler(h.uid, "signOut"), handlers)
                          /\ user' = user
                   [] h.pc = "signOut" ->
                          CopiesIn(Handler(h.uid, "afterSignOut"), handlers')
                              > CopiesIn(Handler(h.uid, "afterSignOut"), handlers)
                   [] h.pc = "afterSignOut" -> user' = NoUser /\ ~loading'
                   [] OTHER -> TRUE]_vars

\* the callback run for the identity without a profile has signed out and is about to
\* set user to null
C5_Witness ==
    /\ NoProfile("g1")
    /\ BagIn(Handler("g1", "afterSignOut"), handlers)
    /\ session = NULL
    /\ user = NoUser

\* C6: a register call that creates an identity sent role 'user' as metadata, and the
\* profile handle_new_user inserted for the identity has role user, whatever role the
\* caller's userData held.
C6_RegisterYieldsUser ==
    [][(lastSignUp' # lastSignUp /\ lastSignUp'.via = "register") =>
          /\ lastSignUp'.role = "user"
          /\ \E p \in profiles' \ profiles : p.id = lastSignUp'.id /\ p.role = "user"
          /\ \A p \in profiles' : p.id = lastSignUp'.id => p.role = "user"]_vars

\* register was called with userData.role = 'admin' and the new profile has role user
C6_Witness ==
    /\ lastSignUp.via = "register"
    /\ lastSignUp.data_role = "admin"
    /\ [id |-> lastSignUp.id, role |-> "user"] \in profiles

\* C7: a profile row gets role admin or store_owner (as a new row or by a change of
\* its role) only in a createUser call made from the admin dashboard by a session
\* whose role is admin.
C7_ElevatedRoleOnlyByAdminCreateUser ==
    [][\A p \in profiles' \ profiles :
          p.role \in {"admin", "store_owner"} =>
              /\ NoProfile(p.id)
              /\ lastSignUp' = [via |-> "createUser", data_role |-> p.role,
                                role |-> p.role, id |-> p.id]
              /\ Rendered.view = "AdminDashboard"
              /\ user.role = "admin"]_vars


\* a call of one of the context's functions that answer with a result object
AuthCallStep ==
    \/ \E a \in AuthIdentities, found \in BOOLEAN : login(a.id, found)
    \/ \E a \in RegisterArgs, signedIn \in BOOLEAN : register(a[1], a[2], signedIn)
    \/ \E a \in CreateUserArgs, signedIn \in BOOLEAN : createUser(a[1], a[2], signedIn)
    \/ \E ok \in BOOLEAN : updatePassword(ok)

\* C11: login, register, updatePassword and createUser return {success: false, error:
\* <message>} when the auth service reports an error and {success: true} otherwise,
\* and the call leaves the session state `user` as it was.
C11_AuthCallsReturnResult ==
    [][AuthCallStep =>
          /\ user' = user
          /\ lastError' = "none" => lastResult' = [success |-> TRUE]
          /\ lastError' # "none" => lastResult' = [success |-> FALSE, error |-> lastError']]_vars

\* a call made in an admin's session was refused
C11_Witness ==
    /\ lastResult = [success |-> FALSE, error |-> "auth"]
    /\ lastError = "auth"
    /\ user # NoUser
    /\ user.role = "admin"


\* C12: when logout() completes, user is null, whatever it was before and whether or
\* not supabase.auth.signOut() removed the session.
C12_LogoutClearsUser ==
    [][(logoutPending = "return" /\ logoutPending' = "no") => user' = NoUser]_vars

\* logout() is about to resume after a signOut that failed: the session and the user
\* are still there
C12_Witness ==
    /\ logoutPending = "return"
    /\ session # NULL
    /\ user # NoUser


\* C13: `loading` starts true; while it is true only the spinner is rendered, no
\* dashboard and no public view; the first event with no session ends it with user =
\* null (anonymous), and a callback run that found the profile ends it with user
\* holding that profile's role.
C13_LoadingUntilResolved ==
    /\ (loading = TRUE /\ user = NoUser)
    /\ [](loading => Rendered.view = "LoadingSpinner")
    /\ [][(loading /\ ~loading') =>
              \/ user' = NoUser
              \/ \E pr \in profiles :
                     user'.id = pr.id /\ user'.role = pr.role /\ pr.role \in Roles]_vars
    /\ [][(~booted /\ booted' /\ session = NULL) => (~loading' /\ user' = NoUser)]_vars
    /\ [][\A h \in BagToSet(handlers) :
             (/\ h.pc = "getProfile"
              /\ CopiesIn(h, handlers') < CopiesIn(h, handlers)
              /\ BagCardinality(handlers') < BagCardinality(handlers)) =>
                 (~loading' /\ user'.id = h.uid /\ user'.role = RoleOf(h.uid))]_vars

\* the first event carried the session of the admin and its callback run has found the
\* profile: the router is out of loading, in the admin's state
C13_Witness ==
    /\ booted
    /\ ~loading
    /\ user # NoUser
    /\ user.role = "admin"
    /\ lastResult = NoResult
    /\ handlers = EmptyBag
    /\ logoutPending = "no"


\* C14: once `loading` has become false it never becomes true again: a later auth
\* event moves the router between the anonymous and the role states without the
\* loading state in between.
C14_LoadingNotReentered ==
    [][~loading => ~loading']_vars


\* C15: with user = null (and loading over) the router renders the login view at
\* /login, the register view at /register, and at every other location a redirect to
\* /login.
C15_AnonymousRoutes ==
    (~loading /\ user = NoUser) =>
        CASE path = "/login" -> Rendered = [view |-> "Login", to |-> NULL]
          [] path = "/register" -> Rendered = [view |-> "Register", to |-> NULL]
          [] OTHER -> Rendered = [view |-> "Navigate", to |-> "/login"]

\* an anonymous session asks for the admin dashboard
C15_Witness ==
    /\ booted
    /\ ~loading
    /\ user = NoUser
    /\ path = "/admin"

\* C16: with user holding role admin, store_owner or user (and loading over) the
\* router renders that role's dashboard at that role's dashboard path, and at every
\* other location (the root, /login, /register, another role's dashboard path, an
\* unmatched path) a redirect to that role's dashboard path.
C16_RoleRoutes ==
    (~loading /\ user # NoUser /\ user.role \in Roles) =>
        LET own == CASE user.role = "admin" -> "/admin"
                     [] user.role = "store_owner" -> "/store-owner"
                     [] user.role = "user" -> "/user"
        IN  IF path = own
            THEN Rendered = [view |-> DashboardOf(user.role), to |-> NULL]
            ELSE Rendered = [view |-> "Navigate", to |-> own]

\* a store owner's session asks for the admin dashboard
C16_Witness ==
    /\ ~loading
    /\ user # NoUser
    /\ user.role = "store_owner"
    /\ path = "/admin"


\* the profile rows of an identity
ProfilesOf(id) == { p \in profiles : p.id = id }

C17_OwnerIsStoreOwner ==
    \A st \in stores : st.owner_id # NULL => RoleOf(st.owner_id) = "store_owner"

\* the identity uid is the owner assigned to the store with this id
AssignedOwner(uid, id) == \E st \in stores : st.id = id /\ st.owner_id = uid

\* C19: an insert or delete on stores sent by an identity whose profile is not admin,
\* and an update sent by one that is neither admin nor the store's assigned owner,
\* leaves the table as it was; and the table changes only in an insert or delete by
\* an admin or an update by an admin or the assigned owner.
C19_StoreWritesAuthorized ==
    [][/\ \A r \in reqs :
              (createStoreAnswered(r) /\ RoleOf(r.uid) # "admin") => stores' = stores
       /\ \A a \in DeleteStoreArgs :
              (deleteStore(a[1], a[2]) /\ RoleOf(a[1]) # "admin") => stores' = stores
       /\ \A a \in UpdateStoreArgs :
              (/\ updateStore(a[1], a[2], a[3], a[4])
               /\ RoleOf(a[1]) # "admin"
               /\ ~AssignedOwner(a[1], a[2])) => stores' = stores
       /\ stores' # stores =>
              \/ \E r \in reqs : createStoreAnswered(r) /\ RoleOf(r.uid) = "admin"
              \/ \E a \in DeleteStoreArgs : deleteStore(a[1], a[2]) /\ RoleOf(a[1]) = "admin"
              \/ \E a \in UpdateStoreArgs :
                     /\ updateStore(a[1], a[2], a[3], a[4])
                     /\ RoleOf(a[1]) = "admin" \/ AssignedOwner(a[1], a[2])]_vars

\* the store the admin created was edited by its owner, and a later statement was
\* refused by a policy
C19_Witness ==
    /\ \E st \in stores : st.owner_id = "o1" /\ st.email = "c@x"
    /\ lastError = "rls"

\* the rating rows a step adds, removes or changes
ChangedRatings == (ratings \ ratings') \cup (ratings' \ ratings)

\* a step of a statement on the ratings table sent by uid touches only rows whose
\* user_id is uid
RatingStatementsTouchOwnRows ==
    /\ \A r \in reqs :
           submitRatingAnswered(r) => \A c \in ChangedRatings : c.user_id = r.uid
    /\ \A a \in UpdateRatingArgs :
           updateRating(a[1], a[2], a[3]) => \A c \in ChangedRatings : c.user_id = a[1]
    /\ \A a \in DeleteRatingArgs :
           deleteRating(a[1], a[2]) => \A c \in ChangedRatings : c.user_id = a[1]

\* C20 as stated: whatever statement an identity sends, the rating rows it creates,
\* changes or removes are rows whose user_id is that identity.
C20_RatingsChangedOnlyByRater ==
    [][/\ RatingStatementsTouchOwnRows
       /\ \A a \in DeleteStoreArgs :
              deleteStore(a[1], a[2]) => \A c \in ChangedRatings : c.user_id = a[1]
       /\ ChangedRatings # {} =>
              \/ \E r \in reqs : submitRatingAnswered(r)
              \/ \E a \in UpdateRatingArgs : updateRating(a[1], a[2], a[3])
              \/ \E a \in DeleteRatingArgs : deleteRating(a[1], a[2])
              \/ \E a \in DeleteStoreArgs : deleteStore(a[1], a[2])]_vars

\* C20, amended: a statement on the ratings table creates, changes or removes only
\* rows whose user_id is the identity that sent it; the only other change of the table
\* is that the ratings of a store go with the store when an admin deletes it.
C20_RatingsChangedByRaterOrCascade ==
    [][/\ RatingStatementsTouchOwnRows
       /\ \A a \in DeleteStoreArgs :
              (deleteStore(a[1], a[2]) /\ ChangedRatings # {}) =>
                  /\ RoleOf(a[1]) = "admin"
                  /\ ratings' \subseteq ratings
                  /\ \A c \in ChangedRatings : c.store_id = a[2]
                  /\ \A st \in stores' : st.id # a[2]
       /\ ChangedRatings # {} =>
              \/ \E r \in reqs : submitRatingAnswered(r)
              \/ \E a \in UpdateRatingArgs : updateRating(a[1], a[2], a[3])
              \/ \E a \in DeleteRatingArgs : deleteRating(a[1], a[2])
              \/ \E a \in DeleteStoreArgs : deleteStore(a[1], a[2])]_vars

\* u1 has changed the score of its own rating by an UPDATE while u2's rating stands,
\* and all ids of the sequence are used up, one of them by the rating sent in u1's name
C20_Witness ==
    /\ \E r \in ratings : r.user_id = "u1" /\ r.rating = 4
    /\ \E r \in ratings : r.user_id = "u2" /\ r.rating = 5
    /\ ratingSeq > MaxRatingId

\* ---------------------------------------------------------------- store ownership by email
\* SELECT email FROM auth.users WHERE id = ... (NULL when the subquery has no row)
EmailOf(users, id) ==
    IF \E a \in users : a.id = id THEN (CHOOSE a \in users : a.id = id).email ELSE NULL

\* assign_store_owner() run for the profile row `new`, with auth.users holding `users`:
\* IF new.role = 'store_owner' THEN UPDATE public.stores SET owner_id = new.id
\* WHERE email = (SELECT email FROM auth.users WHERE id = new.id). Yields the stores table.
assign_store_owner(new, users, storeRows) ==
    IF new.role = "store_owner"
    THEN { IF st.email = EmailOf(users, new.id) THEN [st EXCEPT !.owner_id = new.id] ELSE st :
             st \in storeRows }
    ELSE storeRows

\* CREATE TRIGGER on_profile_created AFTER INSERT ON public.profiles FOR EACH ROW: the
\* stores table after the insert of the row `new`. The trigger names INSERT only.
on_profile_created(new, users, storeRows) ==
    IF "on_profile_created" \in triggers
    THEN assign_store_owner(new, users, storeRows)
    ELSE storeRows

\* INSERT INTO auth.users for a new identity: on_auth_user_created runs handle_new_user,
\* whose insert into public.profiles fires the triggers of that table.
insertAuthUser(email, metaRole) ==
    /\ \A a \in authUsers : a.email # email
    /\ FreshIds # {}
    /\ LET id == NewIds[CHOOSE i \in FreshIds : \A j \in FreshIds : i <= j]
           new == CHOOSE row \in HandleNewUser(id, metaRole) : TRUE
       IN  /\ authUsers' = authUsers \cup {[id |-> id, email |-> email]}
           /\ profiles' = profiles \cup {new}
           /\ stores' = on_profile_created(new, authUsers', stores)
    /\ UNCHANGED <<schemaVars, dashVars, calcVars, ratings, storeSeq, ratingSeq, netVars,
                   lastSignUp, lastResult, session, user, loading, handlers, booted,
                   logoutPending, path>>

\* The identities and profile rows of the ownership specification.
TriggerIdentities ==
    { [id |-> "a1", email |-> "a@x"], [id |-> "o1", email |-> "o@x"],
      [id |-> "u1", email |-> "u@x"] }

TriggerProfiles ==
    { [id |-> "a1", role |-> "admin"], [id |-> "o1", role |-> "store_owner"],
      [id |-> "u1", role |-> "user"] }

\* createStore by the admin: <<session, email, owner_id>>
TriggerCreateStoreArgs == { <<"a1", "n@x", "o1">>, <<"a1", "u@x", "o1">> }

\* INSERT INTO auth.users: <<email, raw_user_meta_data->>'role'>>
TriggerSignUpArgs == { <<"n@x", "store_owner">>, <<"n@x", NULL>>, <<"m@x", "store_owner">> }

\* UPDATE public.profiles SET role: <<session, role>>
TriggerUpdateArgs == { <<"u1", "store_owner">>, <<"o1", "user">>, <<"o1", "store_owner">> }

\* The schema is either the one the first script of the file leaves (on_profile_created
\* installed) or the one left when the second script has run after it (no trigger on
\* public.profiles).
InitTrigger ==
    /\ IdleCalc
    /\ IdleNet
    /\ IdleDash
    /\ triggers \in { {}, {"on_profile_created"} }
    /\ profiles = TriggerProfiles
    /\ stores = {}
    /\ ratings = {}
    /\ storeSeq = 1
    /\ ratingSeq = 1
    /\ authUsers = TriggerIdentities
    /\ lastSignUp = NoSignUp
    /\ lastResult = NoResult
    /\ session = NULL
    /\ user = NoUser
    /\ loading = TRUE
    /\ handlers = EmptyBag
    /\ booted = FALSE
    /\ logoutPending = "no"
    /\ path = "/"

NextTrigger ==
    \/ \E a \in TriggerCreateStoreArgs : createStore(a[1], a[2], a[3])
    \/ \E r \in reqs : createStoreAnswered(r)
    \/ \E a \in TriggerSignUpArgs : insertAuthUser(a[1], a[2])
    \/ \E a \in TriggerUpdateArgs : updateProfileAs(a[1], a[2])

SpecTrigger == InitTrigger /\ [][NextTrigger]_vars

\* C21: a step that creates a profile row with role store_owner, or sets the role of an
\* existing row to store_owner, leaves every store whose email is the email of that
\* identity with owner_id equal to the profile's id.
C21_OwnerAssignedByEmail ==
    [][\A p \in profiles' :
          (p.role = "store_owner" /\ p \notin profiles)
              => \A st \in stores' :
                     st.email = EmailOf(authUsers', p.id) => st.owner_id = p.id]_vars

\* ---------------------------------------------------------------- the dashboards
\* One call of a dashboard handler that awaits an answer: the operation, how far it has
\* come (pc), its arguments, whether the modal that started it is still open (modal), the
\* value of selectedStoreId its closure holds (sel), and what it has read so far (rows,
\* data). Fields a call does not use hold NULL (0, <<>>).
BlankCall ==
    [op |-> NULL, pc |-> NULL, store_id |-> 0, rating |-> 0, email |-> NULL,
     owner_id |-> NULL, modal |-> FALSE, sel |-> NoStore, rows |-> <<>>, data |-> <<>>]

\* getStoresByOwner(ownerId) on the tables storeRows and ratingRows:
\* .eq('owner_id', ownerId), then .in('store_id', storeIds)
getStoresByOwnerUnfiltered(storeRows, ratingRows, ownerId) ==
    getAllStoresWithRatings(storeRows, ratingRows)

getStoresByOwner(storeRows, ratingRows, ownerId) ==
    LET owned == RowsById({ st \in storeRows : st.owner_id = ownerId })
        storeIds == { owned[i].id : i \in DOMAIN owned }
    IN  calculateStoreRatings(
            owned, StoreIdAndRating(RowsById({ r \in ratingRows : r.store_id \in storeIds })))

\* getStoreRatingsWithUserDetails(storeId) on the table ratingRows: the ratings of the
\* store, each with the name and email of the profile it embeds (fields the profile rows
\* here do not carry)
getStoreRatingsWithUserDetails(ratingRows, storeId) ==
    RowsById({ r \in ratingRows : r.store_id = storeId })

\* the reload of a dashboard: loadOwnedStores in the store owner dashboard, loadData in
\* the other two
LoadOps == {"loadData", "loadOwnedStores"}

\* a reload that starts: setLoading(true) and the first select is sent
NewLoad(modal, sel) ==
    [BlankCall EXCEPT !.op = IF dashboard = "store_owner" THEN "loadOwnedStores"
                              ELSE "loadData",
                      !.pc = "selectStores", !.modal = modal, !.sel = sel]

\* the effect on selectedStoreId: loadSelectedStoreData() sends its select
NewFetch(storeId) ==
    [BlankCall EXCEPT !.op = "getStoreRatings", !.pc = "select", !.store_id = storeId]

\* the first select of a reload: supabase.from('stores').select('*'), with
\* .eq('owner_id', ownerId) in getStoresByOwner
SelectStores(c) ==
    IF c.op = "loadOwnedStores"
    THEN RowsById({ st \in stores : st.owner_id = user.id })
    ELSE RowsById(stores)

\* the second select: supabase.from('ratings').select('store_id, rating'), with
\* .in('store_id', storeIds) in getStoresByOwner
SelectRatings(c) ==
    IF c.op = "loadOwnedStores"
    THEN StoreIdAndRating(RowsById(
             { r \in ratings : \E i \in DOMAIN c.rows : c.rows[i].id = r.store_id }))
    ELSE StoreIdAndRating(RowsById(ratings))

\* the server answers the stores select of a reload; the ratings select is sent
loadStoresSelected(c) ==
    /\ c.op \in LoadOps
    /\ c.pc = "selectStores"
    /\ dashCalls' = (dashCalls \ {c})
                        \cup {[c EXCEPT !.pc = "selectRatings", !.rows = SelectStores(c)]}
    /\ UNCHANGED <<schemaVars, calcVars, dbVars, netVars, authVars, dashboard, shownStores,
                   dashError, dashLog, latestRead, selectedStoreId, shownRatings>>

\* the server reads the ratings for a reload; calculateStoreRatings(stores, ratings) is
\* what the service function will return when the answer arrives
loadRatingsSelected(c) ==
    /\ c.op \in LoadOps
    /\ c.pc = "selectRatings"
    /\ LET data == calculateStoreRatings(c.rows, SelectRatings(c))
       IN  /\ dashCalls' = (dashCalls \ {c}) \cup {[c EXCEPT !.pc = "setStores", !.data = data]}
           /\ latestRead' = data
    /\ UNCHANGED <<schemaVars, calcVars, dbVars, netVars, authVars, dashboard, shownStores,
                   dashError, dashLog, selectedStoreId, shownRatings>>

\* what a handler leaves in `stores` when its write has been answered: what it was, the
\* handlers call no setStores but loadData()
StoresAfterWrite(c) == shownStores

\* the handler that follows a write: `await loadData()`
ReloadAfterWriteSkipped(c, modal) == {}

ReloadAfterWrite(c, modal) == {NewLoad(modal, NoStore)}

\* The awaited service function of a reload returns: setStores(storesData)
\* (setOwnedStores in the store owner dashboard, which also selects the first store when
\* its closure holds no selection; the new selectedStoreId starts the effects that
\* depend on it, loadSelectedStoreData and loadOwnedStores). The rest of loadData sets
\* state that carries no aggregate (users, userRatings, loading).
loadDataReturned(c) ==
    /\ c.op \in LoadOps
    /\ c.pc = "setStores"
    /\ shownStores' = c.data
    /\ IF c.op = "loadOwnedStores" /\ Len(c.data) > 0 /\ c.sel = NoStore
          /\ selectedStoreId # c.data[1].id
       THEN /\ selectedStoreId' = c.data[1].id
            /\ dashCalls' = (dashCalls \ {c})
                                \cup {NewFetch(c.data[1].id), NewLoad(FALSE, c.data[1].id)}
       ELSE /\ dashCalls' = dashCalls \ {c}
            /\ UNCHANGED selectedStoreId
    /\ UNCHANGED <<schemaVars, calcVars, dbVars, netVars, authVars, dashboard, dashError,
                   dashLog, latestRead, shownRatings>>

\* a select of a reload is answered with an error: the catch block writes it to the
\* console
loadDataFailed(c) ==
    /\ c.op \in LoadOps
    /\ c.pc \in {"selectStores", "selectRatings"}
    /\ dashCalls' = dashCalls \ {c}
    /\ dashLog' = "Error loading stores"
    /\ UNCHANGED <<schemaVars, calcVars, dbVars, netVars, authVars, dashboard, shownStores,
                   dashError, latestRead, selectedStoreId, shownRatings>>

\* no modal of the dashboard is open and waiting for its handler
NoModalWaiting == \A c \in dashCalls : ~c.modal

\* UserDashboard: handleRateStore(store) on a displayed store, then the modal's
\* handleSubmit: submitRating(rating) sends service.submitRating(selectedStore.id,
\* user.id, rating)
UserDashboardSubmitRating(i, rating) ==
    /\ dashboard = "user"
    /\ i \in DOMAIN shownStores
    /\ NoModalWaiting
    /\ Cardinality(dashCalls) < MaxInFlight
    /\ dashCalls' = dashCalls \cup {[BlankCall EXCEPT !.op = "submitRating", !.pc = "upsert",
                                                     !.store_id = shownStores[i].id,
                                                     !.rating = rating, !.modal = TRUE]}
    /\ UNCHANGED <<schemaVars, calcVars, dbVars, netVars, authVars, dashboard, shownStores,
                   dashError, dashLog, latestRead, selectedStoreId, shownRatings>>

\* What the catch block of UserDashboard.submitRating shows to the user for an error:
\* nothing, it calls console.error only.
SubmitRatingErrorShown(error) == dashError

\* UserDashboard.submitRating resumes: the upsert was run by the server (reached: the
\* request reached it), or failed on the way. Then setRatingModalOpen(false) and
\* `await loadData()`, or the catch block.
UserDashboardSubmitRatingAnswered(c, reached) ==
    /\ c.op = "submitRating"
    /\ LET new == [user_id |-> user.id, store_id |-> c.store_id, rating |-> c.rating]
           res == IF reached THEN UpsertRating(user.id, new)
                  ELSE [error |-> "network", rows |-> ratings]
       IN  /\ reached => ratingSeq <= MaxRatingId
           /\ ratings' = res.rows
           /\ ratingSeq' = IF reached THEN ratingSeq + 1 ELSE ratingSeq
           /\ lastError' = res.error
           /\ IF res.error = "none"
              THEN /\ dashCalls' = (dashCalls \ {c}) \cup ReloadAfterWrite(c, FALSE)
                   /\ shownStores' = StoresAfterWrite(c)
                   /\ UNCHANGED <<dashError, dashLog>>
              ELSE /\ dashCalls' = dashCalls \ {c}
                   /\ dashLog' = "Error submitting rating"
                   /\ dashError' = SubmitRatingErrorShown(res.error)
                   /\ UNCHANGED shownStores
    /\ UNCHANGED <<schemaVars, calcVars, profiles, stores, storeSeq, reqs, authVars, dashboard,
                   latestRead, selectedStoreId, shownRatings>>

\* submitRating sent from the session of another user and run by the server
OtherUserSubmitRating(uid, storeId, rating) ==
    /\ uid # user.id
    /\ ratingSeq <= MaxRatingId
    /\ ratings' = UpsertRating(uid, [user_id |-> uid, store_id |-> storeId,
                                     rating |-> rating]).rows
    /\ ratingSeq' = ratingSeq + 1
    /\ UNCHANGED <<schemaVars, calcVars, profiles, stores, storeSeq, netVars, authVars,
                   dashVars>>

\* What handleAddUser shows to the user for the result of createUser: nothing, it does
\* not read the result.
AddUserErrorShown(result) == dashError

\* AdminDashboard.handleAddUser(userData) from AddUserModal: `await createUser(userData)`,
\* whose result is dropped, then `await loadData()`
handleAddUser(role, email) ==
    /\ dashboard = "admin"
    /\ NoModalWaiting
    /\ Cardinality(dashCalls) < MaxInFlight
    /\ signUp("createUser", role, role, email, FALSE)
    /\ dashCalls' = dashCalls \cup {NewLoad(TRUE, NoStore)}
    /\ dashError' = AddUserErrorShown(lastResult')
    /\ UNCHANGED <<schemaVars, calcVars, stores, ratings, storeSeq, ratingSeq, reqs, booted,
                   logoutPending, path, dashboard, shownStores, dashLog, latestRead,
                   selectedStoreId, shownRatings>>

\* AdminDashboard.handleAddStore(storeData) from AddStoreModal: service.createStore is sent
handleAddStore(email, owner_id) ==
    /\ dashboard = "admin"
    /\ NoModalWaiting
    /\ Cardinality(dashCalls) < MaxInFlight
    /\ dashCalls' = dashCalls \cup {[BlankCall EXCEPT !.op = "createStore", !.pc = "insert",
                                                     !.email = email, !.owner_id = owner_id,
                                                     !.modal = TRUE]}
    /\ UNCHANGED <<schemaVars, calcVars, dbVars, netVars, authVars, dashboard, shownStores,
                   dashError, dashLog, latestRead, selectedStoreId, shownRatings>>

\* handleAddStore resumes: the insert was run by the server (reached), or failed on the
\* way. Then `await loadData()`, or the catch block: console.error and alert(err.message).
handleAddStoreAnswered(c, reached) ==
    /\ c.op = "createStore"
    /\ LET res == IF reached
                  THEN InsertStore(user.id, [email |-> c.email, owner_id |-> c.owner_id])
                  ELSE [error |-> "network", rows |-> stores]
       IN  /\ reached => storeSeq <= MaxStoreId
           /\ stores' = res.rows
           /\ storeSeq' = IF reached THEN storeSeq + 1 ELSE storeSeq
           /\ lastError' = res.error
           /\ IF res.error = "none"
              THEN /\ dashCalls' = (dashCalls \ {c}) \cup ReloadAfterWrite(c, TRUE)
                   /\ UNCHANGED <<dashError, dashLog>>
              ELSE /\ dashCalls' = dashCalls \ {c}
                   /\ dashLog' = "Failed to add store"
                   /\ dashError' = res.error
    /\ UNCHANGED <<schemaVars, calcVars, profiles, ratings, ratingSeq, reqs, authVars,
                   dashboard, shownStores, latestRead, selectedStoreId, shownRatings>>

\* StoreOwnerDashboard: the store selector's onChange: setSelectedStoreId(id). The
\* selector is rendered when loading is false (no loadOwnedStores awaits its answer),
\* there are several owned stores and the selected one is among them. The new
\* selectedStoreId starts the effects that depend on it.
SelectStore(id) ==
    /\ dashboard = "store_owner"
    /\ \A c \in dashCalls : c.op # "loadOwnedStores"
    /\ Len(shownStores) > 1
    /\ \E i \in DOMAIN shownStores : shownStores[i].id = selectedStoreId
    /\ \E i \in DOMAIN shownStores : shownStores[i].id = id
    /\ id # selectedStoreId
    /\ Cardinality(dashCalls) < MaxInFlight
    /\ selectedStoreId' = id
    /\ dashCalls' = dashCalls \cup {NewFetch(id), NewLoad(FALSE, id)}
    /\ UNCHANGED <<schemaVars, calcVars, dbVars, netVars, authVars, dashboard, shownStores,
                   dashError, dashLog, latestRead, shownRatings>>

\* what loadSelectedStoreData does with the list it fetched for store c.store_id:
\* setStoreRatings(ratings), whatever store is selected by then
RatingsAfterFetch(c, fetched) == fetched

\* loadSelectedStoreData resumes with the list the server returned
getStoreRatingsAnswered(c) ==
    /\ c.op = "getStoreRatings"
    /\ shownRatings' =
           RatingsAfterFetch(c, getStoreRatingsWithUserDetails(ratings, c.store_id))
    /\ dashCalls' = dashCalls \ {c}
    /\ UNCHANGED <<schemaVars, calcVars, dbVars, netVars, authVars, dashboard, shownStores,
                   dashError, dashLog, latestRead, selectedStoreId>>

\* loadSelectedStoreData resumes with an error: console.error
getStoreRatingsFailed(c) ==
    /\ c.op = "getStoreRatings"
    /\ dashLog' = "Error loading data for store"
    /\ dashCalls' = dashCalls \ {c}
    /\ UNCHANGED <<schemaVars, calcVars, dbVars, netVars, authVars, dashboard, shownStores,
                   dashError, latestRead, selectedStoreId, shownRatings>>

\* ---------------------------------------------------------------- dashboard specification
DashIdentities ==
    { [id |-> "a1", email |-> "a@x"], [id |-> "o1", email |-> "o@x"],
      [id |-> "u1", email |-> "u@x"], [id |-> "u2", email |-> "v@x"] }

\* the dashboard of each signed-in identity
DashboardUsers == { <<"user", "u1">>, <<"admin", "a1">>, <<"store_owner", "o1">> }

\* the stores at the start: one, or two, of the owner o1
DashStores ==
    { { [id |-> 1, email |-> "a@x", owner_id |-> "o1"] },
      { [id |-> 1, email |-> "a@x", owner_id |-> "o1"],
        [id |-> 2, email |-> "b@x", owner_id |-> "o1"] } }

\* the scores chosen in the rating modal, and by the other user: <<user, store, rating>>
DashRatings == {MinRating, MaxRating}

OtherSubmitArgs == { <<"u2", 1, MaxRating>>, <<"u2", 1, 2>> }

\* handleAddUser: <<role, email>>; handleAddStore: <<email, owner_id>>
AddUserArgs == { <<"store_owner", "n@x">>, <<"user", "u@x">> }

AddStoreArgs == { <<"b@x", "o1">> }

\* A dashboard has been mounted for its signed-in identity and its mount effect has
\* called the reload.
InitDash ==
    /\ IdleCalc
    /\ IdleNet
    /\ SchemaAfterLastScript
    /\ profiles = DataProfiles
    /\ stores \in DashStores
    /\ ratings = {}
    /\ storeSeq = Cardinality(stores) + 1
    /\ ratingSeq = 1
    /\ authUsers = DashIdentities
    /\ lastSignUp = NoSignUp
    /\ lastResult = NoResult
    /\ \E d \in DashboardUsers :
           /\ dashboard = d[1]
           /\ session = d[2]
           /\ user = Merge(SessionUser(d[2]), CHOOSE p \in DataProfiles : p.id = d[2])
           /\ path = getDashboardPath(RoleOf(d[2]))
    /\ loading = FALSE
    /\ handlers = EmptyBag
    /\ booted = TRUE
    /\ logoutPending = "no"
    /\ dashCalls = {NewLoad(FALSE, NoStore)}
    /\ shownStores = <<>>
    /\ dashError = "none"
    /\ dashLog = "none"
    /\ latestRead = <<>>
    /\ selectedStoreId = NoStore
    /\ shownRatings = <<>>

NextDash ==
    \/ \E c \in dashCalls : loadStoresSelected(c)
    \/ \E c \in dashCalls : loadRatingsSelected(c)
    \/ \E c \in dashCalls : loadDataReturned(c)
    \/ \E c \in dashCalls : loadDataFailed(c)
    \/ \E i \in 1 .. MaxStoreId, rating \in DashRatings : UserDashboardSubmitRating(i, rating)
    \/ \E c \in dashCalls, reached \in BOOLEAN : UserDashboardSubmitRatingAnswered(c, reached)
    \/ \E a \in OtherSubmitArgs : OtherUserSubmitRating(a[1], a[2], a[3])
    \/ \E a \in AddUserArgs : handleAddUser(a[1], a[2])
    \/ \E a \in AddStoreArgs : handleAddStore(a[1], a[2])
    \/ \E c \in dashCalls, reached \in BOOLEAN : handleAddStoreAnswered(c, reached)
    \/ \E id \in 1 .. MaxStoreId : SelectStore(id)
    \/ \E c \in dashCalls : getStoreRatingsAnswered(c)
    \/ \E c \in dashCalls : getStoreRatingsFailed(c)

SpecDash == InitDash /\ [][NextDash]_vars

\* ---------------------------------------------------------------- claims on the dashboards
\* the calls of the dashboard's handlers that a step resumes
Resumed == dashCalls \ dashCalls'

\* a reload has just been started
ReloadStarted == \E l \in dashCalls' : l.op \in LoadOps /\ l.pc = "selectStores"

\* C22: a step that resumes a handler after its write succeeded (submitRating in the user
\* dashboard, createStore in the admin dashboard) or after createUser leaves a reload
\* started, and changes nothing displayed; the displayed rows and their aggregates
\* change only in the step where a reload's service function returns, and then to what
\* that reload fetched.
C22_ReloadAfterWrite ==
    [][/\ \A c \in Resumed :
              (c.op \in {"submitRating", "createStore"} /\ lastError' = "none")
                  => (ReloadStarted /\ shownStores' = shownStores)
       /\ lastSignUp' # lastSignUp => (ReloadStarted /\ shownStores' = shownStores)
       /\ shownStores' # shownStores
              => \E c \in Resumed :
                     c.op \in LoadOps /\ c.pc = "setStores" /\ shownStores' = c.data]_vars

\* C22 witness: the user dashboard displays a store with the rating its user submitted,
\* after the reload that followed the write.
C22_Witness ==
    /\ dashboard = "user"
    /\ dashCalls = {}
    /\ \E r \in ratings : r.user_id = user.id
    /\ \E i \in DOMAIN shownStores :
           /\ shownStores[i].totalRatings > 0
           /\ \E r \in ratings : r.user_id = user.id /\ r.store_id = shownStores[i].id

\* C23: a step in which a dashboard handler learns that its write failed (submitRating,
\* createStore, createUser) leaves the error shown to the user.
C23_FailuresShown ==
    [][/\ \A c \in Resumed :
              (c.op \in {"submitRating", "createStore"} /\ lastError' # "none")
                  => dashError' = lastError'
       /\ ((\E a \in AddUserArgs : handleAddUser(a[1], a[2])) /\ lastError' # "none")
              => dashError' = lastError']_vars

\* C24: once every reload of the view has completed, the displayed rows and aggregates
\* are those returned to the reload that read the server last.
C24_ShowsLatestRead ==
    (\A c \in dashCalls : c.op \notin LoadOps) => shownStores = latestRead

\* ---------------------------------------------------------------- claims on overlapping callbacks
\* C25: once no onAuthStateChange callback and no logout() is running, the session state
\* is that of the latest event: when the client holds no session (the latest event was
\* SIGNED_OUT), user is null.
C25_StateOfLatestEvent ==
    (booted /\ handlers = EmptyBag /\ logoutPending = "no" /\ session = NULL)
        => user = NoUser

\* C26: loading is true whenever an onAuthStateChange callback is still awaiting its
\* profile fetch.
C26_LoadingWhileCallbackRuns ==
    (\E h \in BagToSet(handlers) : h.pc = "getProfile") => loading = TRUE

\* C27: in the store owner dashboard, once every getStoreRatingsWithUserDetails fetch has
\* completed (none of them, and no reload, with an error), the displayed rating list
\* holds ratings of the selected store only.
C27_RatingsOfSelectedStore ==
    (/\ dashboard = "store_owner"
     /\ dashLog = "none"
     /\ \A c \in dashCalls : c.op # "getStoreRatings")
        => \A i \in DOMAIN shownRatings : shownRatings[i].store_id = selectedStoreId

\* ---------------------------------------------------------------- claims on the reads
\* C28: on every server state and for every profile id, getStoresByOwner(ownerId) lists
\* exactly the stores whose owner_id is ownerId, each once, and gives each of them the
\* averageRating and totalRatings that getAllStoresWithRatings gives that store on the
\* same state.
C28_OwnerReadAgrees ==
    \A p \in profiles :
        LET res == getStoresByOwner(stores, ratings, p.id)
            owned == { st.id : st \in { x \in stores : x.owner_id = p.id } }
        IN  /\ { res[i].id : i \in DOMAIN res } = owned
            /\ Len(res) = Cardinality(owned)
            /\ \A i \in DOMAIN res :
                   <<res[i].averageRating, res[i].totalRatings>>
                       = AggregateOf(stores, ratings, res[i].id)

\* C28 witness: the owner has a rated store and there is a rated store that is not the
\* owner's.
C28_Witness ==
    \E mine, other \in stores :
        /\ mine.owner_id = "o1"
        /\ other.owner_id # "o1"
        /\ \E r \in ratings : r.store_id = mine.id
        /\ \E r \in ratings : r.store_id = other.id
        /\ Len(getStoresByOwner(stores, ratings, "o1")) = 1

\* ---------------------------------------------------------------- claims on the merged user
\* C29: whenever user is signed-in (and no callback or logout() is running that is about
\* to set it again), its id is the id of the identity of the client's session and its
\* role is the role in that identity's row of public.profiles.
C29_UserIsSessionProfile ==
    (user # NoUser /\ handlers = EmptyBag /\ logoutPending = "no")
        => (user.id = session /\ user.role = RoleOf(session))

\* ---------------------------------------------------------------- router specification
\* a role that is none of the cases of getDashboardPath ("an unexpected role")
UnexpectedRole == "guest"

\* The values of `user` the router is rendered with: null, or an identity merged with a
\* profile of any role.
RouterUsers ==
    {NoUser} \cup [id : {"a1", "o1", "u1"}, role : Roles \cup {UnexpectedRole}, email : {"a@x"}]

\* AppRouter rendered with every value of { user, loading } at every location
InitRouter ==
    /\ IdleCalc
    /\ IdleDb
    /\ IdleNet
    /\ SchemaAfterLastScript
    /\ IdleDash
    /\ authUsers = {}
    /\ lastSignUp = NoSignUp
    /\ lastResult = NoResult
    /\ user \in RouterUsers
    /\ session = user.id
    /\ loading \in BOOLEAN
    /\ handlers = EmptyBag
    /\ booted = TRUE
    /\ logoutPending = "no"
    /\ path \in Paths \cup {"/"}

NextRouter ==
    \/ \E p \in Paths : RequestPath(p)
    \/ FollowNavigate

SpecRouter == InitRouter /\ [][NextRouter]_vars

\* C30: whatever the session state and the location, the location a redirect of AppRouter
\* leads to renders a view: no redirect leads to another redirect.
C30_RedirectReachesView ==
    Rendered.view = "Navigate" => AppRouter(user, loading, Rendered.to).view # "Navigate"

====
